---- MODULE Spec2Model ----
(***************************************************************************)
(* The stateless chat turn of the todo application: handle_chat drives     *)
(* get_or_create_conversation, get_recent_messages, add_message (user),    *)
(* the agent run with its tool calls, and add_message (assistant) against  *)
(* the conversations and messages tables.  Several turns run concurrently, *)
(* one worker per request, sharing only the tables.                        *)
(***************************************************************************)
EXTENDS Integers, Sequences, FiniteSets, TLC

\* ------------------------------------------------------------------ bounds
MaxTurns == 2
NumConvIds == 2
MaxToolCalls == 2
MaxClock == 1
MaxTasks == 1
MaxWindow == 3
MaxSubmits == 2
MaxVisits == 2
MaxOps == 2

\* ------------------------------------------------------------------ constants
CHAT_CONTEXT_LIMIT == 20

Turns == 1..MaxTurns
Users == {"u1", "u2"}
ConvIds == 1..NumConvIds
NoConv == 0
NoUser == "none"
ToolNames == {"add_task", "list_tasks", "complete_task", "delete_task", "update_task"}
\* A title is its sequence of words
Titles == {<<"milk">>}
AgentFailures == {"Timeout", "InvalidResponse"}
APOLOGY == "Sorry, I could not process that. Please try again."
NoRow == [conversation_id |-> NoConv]

VARIABLES conversations, messages, tasks, now, context_limit, turn,
          chatInput, chatPage, auth, tasksPage

\* The server side, and the components of the browser side
backend == <<conversations, messages, tasks, now, context_limit, turn>>
frontend == <<chatInput, chatPage, auth, tasksPage>>
vars == <<backend, frontend>>
storage == <<conversations, messages, tasks>>

Min(a, b) == IF a <= b THEN a ELSE b

\* datetime.utcnow(): a reading at or after the current clock, one tick at most
utcnow(t0) == t0..Min(t0 + 1, MaxClock)

\* ------------------------------------------------------------------ store
\* Variant: ownership is not compared, any existing conversation passes
verify_any_owner(convs, conversation_id, user_id) ==
    IF conversation_id \in DOMAIN convs THEN "True" ELSE "None"

\* Variant: `not conversation or ...`, a missing conversation passes
verify_missing_passes(convs, conversation_id, user_id) ==
    IF conversation_id \notin DOMAIN convs THEN "True"
    ELSE IF convs[conversation_id].user_id = user_id THEN "True" ELSE "False"

\* The value of `conversation and conversation.user_id == user_id`: None for
\* a missing row, otherwise the comparison.
verify_conversation_ownership(convs, conversation_id, user_id) ==
    IF conversation_id \notin DOMAIN convs THEN "None"
    ELSE IF convs[conversation_id].user_id = user_id THEN "True" ELSE "False"

Truthy(v) == v = "True"

\* uuid4 ids are opaque: the next unused one stands for a fresh id
FreshConvId(convs) == CHOOSE id \in ConvIds \ DOMAIN convs :
                          \A other \in ConvIds \ DOMAIN convs : id <= other

create_conversation(convs, id, user_id, created, updated) ==
    convs @@ (id :> [user_id |-> user_id, created_at |-> created, updated_at |-> updated])

\* Variant: the row is added to the session twice
add_message_twice(msgs, convs, row, updated) ==
    [messages |-> Append(Append(msgs, row), row),
     conversations |->
        IF row.conversation_id \in DOMAIN convs
        THEN [convs EXCEPT ![row.conversation_id].updated_at = updated]
        ELSE convs]

\* Variant: session.add(message) is missing, only updated_at is written
add_message_no_insert(msgs, convs, row, updated) ==
    [messages |-> msgs,
     conversations |->
        IF row.conversation_id \in DOMAIN convs
        THEN [convs EXCEPT ![row.conversation_id].updated_at = updated]
        ELSE convs]

\* Variant: the new row is stored ahead of the older ones
add_message_first(msgs, convs, row, updated) ==
    [messages |-> <<row>> \o msgs,
     conversations |->
        IF row.conversation_id \in DOMAIN convs
        THEN [convs EXCEPT ![row.conversation_id].updated_at = updated]
        ELSE convs]

\* Variant: the updated_at write has no WHERE clause, every conversation is
\* marked
add_message_marks_all(msgs, convs, row, updated) ==
    [messages |-> Append(msgs, row),
     conversations |-> [c \in DOMAIN convs |-> [convs[c] EXCEPT !.updated_at = updated]]]

\* Variant: the conversation row is written back whole, its owner blanked
add_message_rewrites_owner(msgs, convs, row, updated) ==
    [messages |-> Append(msgs, row),
     conversations |->
        IF row.conversation_id \in DOMAIN convs
        THEN [convs EXCEPT ![row.conversation_id].updated_at = updated,
                           ![row.conversation_id].user_id = NoUser]
        ELSE convs]

\* Variant: the newest stored row is overwritten in place by the new one
add_message_overwrite(msgs, convs, row, updated) ==
    [messages |-> IF msgs = <<>> THEN <<row>> ELSE [msgs EXCEPT ![Len(msgs)] = row],
     conversations |->
        IF row.conversation_id \in DOMAIN convs
        THEN [convs EXCEPT ![row.conversation_id].updated_at = updated]
        ELSE convs]

\* The committed effect of add_message: the insert and, when the conversation
\* row was found, its updated_at, in one transaction.
add_message(msgs, convs, row, updated) ==
    [messages |-> Append(msgs, row),
     conversations |->
        IF row.conversation_id \in DOMAIN convs
        THEN [convs EXCEPT ![row.conversation_id].updated_at = updated]
        ELSE convs]

ConvMsgIdx(msgs, c) == {i \in 1..Len(msgs) : msgs[i].conversation_id = c}

\* ORDER BY created_at DESC LIMIT n: rows with equal created_at come in any order
RECURSIVE DescLimit(_, _, _)
DescLimit(msgs, S, n) ==
    IF n = 0 \/ S = {} THEN {<<>>}
    ELSE UNION {{<<i>> \o rest : rest \in DescLimit(msgs, S \ {i}, n - 1)} :
                 i \in {j \in S : \A k \in S : msgs[k].created_at <= msgs[j].created_at}}

Reversed(s) == [i \in 1..Len(s) |-> s[Len(s) + 1 - i]]

\* Variant: the rows are returned as the query gives them, newest first
get_conversation_messages_newest_first(msgs, conversation_id, limit) ==
    {[i \in 1..Len(q) |-> msgs[q[i]]] :
        q \in DescLimit(msgs, ConvMsgIdx(msgs, conversation_id), limit)}

get_conversation_messages(msgs, conversation_id, limit) ==
    {[i \in 1..Len(q) |-> msgs[Reversed(q)[i]]] :
        q \in DescLimit(msgs, ConvMsgIdx(msgs, conversation_id), limit)}

\* ------------------------------------------------------------------ tools
\* Variant: a user_id found in the tool-call input wins over the caller
ToolContextUser_from_input(caller, input) ==
    IF input.user_id # NoUser THEN input.user_id ELSE caller

\* The identity a tool runs under: the verified caller handed to the agent run
\* as execution context, never a user_id found in the tool-call input.
ToolContextUser(caller, input) == caller

TaskIds == 1..MaxTasks

\* str.lower() of a word
LowerWord(w) ==
    CASE w = "Buy" -> "buy"
      [] w = "Groceries" -> "groceries"
      [] w = "Milk" -> "milk"
      [] OTHER -> w

LowerTitle(title) == [i \in 1..Len(title) |-> LowerWord(title[i])]

\* The words of a title, case folded
WordSet(title) == {LowerWord(title[i]) : i \in 1..Len(title)}

\* Similarity of two titles in percent: shared words over all words
Similarity(a, b) ==
    (100 * Cardinality(WordSet(a) \cap WordSet(b))) \div
        Cardinality(WordSet(a) \cup WordSet(b))

\* A fuzzy match counts from this similarity on
FUZZY_THRESHOLD == 50

\* Variant: without an exact match every task above the threshold is a
\* candidate and the lowest id among them is taken
Matching_first_candidate(ts, user, title) ==
    LET own == {k \in ts : k.user_id = user}
        exact == {k \in own : LowerTitle(k.title) = LowerTitle(title)}
        above == {k \in own : Similarity(k.title, title) >= FUZZY_THRESHOLD}
    IN  IF exact # {} THEN exact
        ELSE {k \in above : \A j \in above : k.id <= j.id}

\* Lookup by description among the acting user's tasks: the tasks whose title
\* is the given one up to case; if there is none, the tasks of highest
\* similarity among those reaching the threshold.  A lookup succeeds when this
\* leaves exactly one task.
Matching(ts, user, title) ==
    LET own == {k \in ts : k.user_id = user}
        exact == {k \in own : LowerTitle(k.title) = LowerTitle(title)}
        above == {k \in own : Similarity(k.title, title) >= FUZZY_THRESHOLD}
    IN  IF exact # {} THEN exact
        ELSE {k \in above :
                \A j \in above : Similarity(j.title, title) <= Similarity(k.title, title)}

\* Variant: a failing call leaves the task table emptied
ToolFailure_drops_tasks(ts, tag) == [tasks |-> {}, output |-> tag, touched |-> {}]

\* A typed failure of a tool call: the tag, no task row read or written
ToolFailure(ts, tag) == [tasks |-> ts, output |-> tag, touched |-> {}]

\* One tool call under identity `user`: the possible {tasks, output, touched}
\* outcomes, `touched` naming the owners of the task rows read or written.
call_tool(ts, tool, input, user) ==
    LET fail(tag) == ToolFailure(ts, tag)
        m == Matching(ts, user, input.title)
        free == {i \in TaskIds : \A k \in ts : k.id # i}
        done ==
            CASE tool = "add_task" ->
                   IF free = {} THEN {}
                   ELSE {[tasks |-> ts \cup {[id |-> CHOOSE i \in free : \A j \in free : i <= j,
                                              user_id |-> user, title |-> input.title,
                                              completed |-> FALSE, description |-> ""]},
                          output |-> "ok", touched |-> {user}]}
              [] tool = "list_tasks" ->
                   {[tasks |-> ts, output |-> "ok",
                     touched |-> {k.user_id : k \in {x \in ts : x.user_id = user}}]}
              [] tool = "complete_task" ->
                   IF Cardinality(m) # 1 THEN {fail("NotFound")}
                   ELSE {[tasks |-> (ts \ m) \cup {[k EXCEPT !.completed = TRUE] : k \in m},
                          output |-> "ok", touched |-> {k.user_id : k \in m}]}
              [] tool = "delete_task" ->
                   IF Cardinality(m) # 1 THEN {fail("NotFound")}
                   ELSE {[tasks |-> ts \ m, output |-> "ok", touched |-> {k.user_id : k \in m}]}
              [] tool = "update_task" ->
                   IF Cardinality(m) # 1 THEN {fail("NotFound")}
                   ELSE {[tasks |-> (ts \ m) \cup {[k EXCEPT !.description = "edited"] : k \in m},
                          output |-> "ok", touched |-> {k.user_id : k \in m}]}
    IN  {fail("Unavailable")}
          \cup (IF input.user_id # NoUser THEN {fail("ValidationFailed")} ELSE {})
          \cup done

\* ------------------------------------------------------------------ text
\* A text is a run of leading blanks, a core without blanks, and a run of
\* trailing blanks; an all-blank text has its blanks counted as leading
MAX_MESSAGE_LENGTH == 2000

Text(lead, core, trail) ==
    IF core = 0 THEN [lead |-> lead + trail, core |-> 0, trail |-> 0]
    ELSE [lead |-> lead, core |-> core, trail |-> trail]

EmptyText == Text(0, 0, 0)

Length(x) == x.lead + x.core + x.trail

\* String.prototype.trim
trim(x) == Text(0, x.core, 0)

\* A string is truthy unless empty
NonEmpty(x) == Length(x) > 0

\* Variant: the text is kept whole
slice_keeps_all(x, n) == x

\* String.prototype.slice(0, n): the first n characters
slice(x, n) ==
    LET lead == Min(x.lead, n)
        core == Min(x.core, n - lead)
        trail == Min(x.trail, n - lead - core)
    IN  Text(lead, core, trail)

\* What a user types or pastes: short texts, blank texts, and texts at and
\* beyond the limit
TextValues ==
    {Text(l, c, r) : l \in {0, 1},
                     c \in {0, 1, MAX_MESSAGE_LENGTH - 1, MAX_MESSAGE_LENGTH,
                            MAX_MESSAGE_LENGTH + 1},
                     r \in {0, 1}}

\* The quick action labels 'Show tasks', 'Add task', 'Help'
QuickActionLabels == {Text(0, 10, 0), Text(0, 8, 0), Text(0, 4, 0)}

\* ------------------------------------------------------------------ browser state
\* ChatInput: the draft, its props, and what it has passed to onSend;
\* `input` is the text of the last change event, `submits` counts handleSubmit
ChatInputInit ==
    [message |-> EmptyText, isLoading |-> FALSE, disabled |-> FALSE,
     input |-> EmptyText, sent |-> <<>>, submits |-> 0]

\* A message of the chat view; `turn` and `conversation_id` record the request
\* it came from and the conversation it belongs to
ViewMessage(id, role, t, c) == [id |-> id, role |-> role, turn |-> t, conversation_id |-> c]

\* ChatPage / ChatContainer after mount with a user present: the state hooks,
\* and the requests awaited (`sends`, `loads`).  With an initial conversation
\* id the mount effect has called loadConversationHistory.
ChatPageState(c) ==
    [messages |-> <<>>, conversationId |-> c, isLoading |-> FALSE,
     isLoadingHistory |-> c # NoConv, error |-> "none",
     sends |-> {}, loads |-> IF c = NoConv THEN {} ELSE {c}]

ChatPageInit == ChatPageState(NoConv)

\* AuthProvider at mount, the page opened at `pathname`: no user, the check
\* running (useEffect calls checkAuth); `session` is the server's view of the
\* cookie, `calls` the api.auth requests awaited
AuthState(pathname, session) ==
    [user |-> NoUser, isLoading |-> TRUE, session |-> session,
     pathname |-> pathname, calls |-> {"me"}, visits |-> 0, hadSession |-> session]

AuthInit == AuthState("/dashboard", FALSE)

\* TasksPage after construction: the state hooks and the api.tasks requests
\* awaited
\* `confirmed` records, per task id, the last operation the server answered
\* with success; `issued` counts the operations started
TasksPageInit ==
    [tasks |-> <<>>, isLoadingTasks |-> TRUE, error |-> "none",
     isCreating |-> FALSE, isUpdating |-> FALSE, editingTask |-> 0,
     calls |-> {}, issued |-> 0, confirmed |-> <<>>]

FrontendInit ==
    /\ chatInput = ChatInputInit
    /\ chatPage = ChatPageInit
    /\ auth = AuthInit
    /\ tasksPage = TasksPageInit

\* ------------------------------------------------------------------ turns
IdleTurn ==
    [pc |-> "idle", user_id |-> NoUser, conversation_id |-> NoConv, message |-> "",
     conversation |-> NoConv, resolved |-> "none", history |-> <<>>,
     pending |-> NoRow, pending_updated |-> 0,
     agent |-> "none", agent_input |-> <<>>, content |-> "", requested |-> 0,
     tool_calls |-> <<>>,
     failed_at |-> "none", failure |-> "none", response |-> [status |-> "none"]]

Terminal == {"Responded", "Failed"}

NotFoundResponse == [status |-> "NotFound", detail |-> "Conversation not found"]
UnavailableResponse == [status |-> "Unavailable", detail |-> "Service unavailable, retry"]

\* How the supplied id stands at the moment of resolution
ResolveCase(convs, conversation_id, user_id) ==
    IF conversation_id = NoConv THEN "new"
    ELSE IF conversation_id \notin DOMAIN convs THEN "missing"
    ELSE IF convs[conversation_id].user_id = user_id THEN "own" ELSE "foreign"

\* The tables are empty, the context limit is the configured default
Init ==
    /\ conversations = <<>>
    /\ messages = <<>>
    /\ tasks = {}
    /\ now = 0
    /\ context_limit = CHAT_CONTEXT_LIMIT
    /\ turn = [t \in Turns |-> IdleTurn]
    /\ FrontendInit

\* POST /api/{user_id}/chat with a verified caller, an optional conversation id
\* and a message; `callers` and `ids` are the requests considered
Receive(t, callers, ids) ==
    /\ turn[t].pc = "idle"
    /\ \E u \in callers, c \in ids :
          turn' = [turn EXCEPT ![t] = [@ EXCEPT !.pc = "Received", !.user_id = u,
                                               !.conversation_id = c, !.message = "msg"]]
    /\ UNCHANGED <<conversations, messages, tasks, now, context_limit, frontend>>

\* 1. Get or create conversation
get_or_create_conversation(t) ==
    /\ turn[t].pc = "Received"
    /\ LET r == turn[t]
           case == ResolveCase(conversations, r.conversation_id, r.user_id)
       IN  IF r.conversation_id = NoConv
           THEN /\ ConvIds \ DOMAIN conversations # {}
                /\ \E created \in utcnow(now) : \E updated \in utcnow(created) :
                      LET id == FreshConvId(conversations) IN
                      /\ conversations' =
                            create_conversation(conversations, id, r.user_id, created, updated)
                      /\ now' = updated
                      /\ turn' = [turn EXCEPT ![t] = [@ EXCEPT !.pc = "Resolved",
                                       !.conversation = id, !.resolved = case]]
                /\ UNCHANGED <<messages, tasks, context_limit, frontend>>
           ELSE /\ IF Truthy(verify_conversation_ownership(
                                conversations, r.conversation_id, r.user_id))
                   THEN turn' = [turn EXCEPT ![t] = [@ EXCEPT !.pc = "Resolved",
                                       !.conversation = r.conversation_id, !.resolved = case]]
                   ELSE turn' = [turn EXCEPT ![t] = [@ EXCEPT !.pc = "Failed",
                                       !.failed_at = "Received", !.failure = "NotFound",
                                       !.resolved = case, !.response = NotFoundResponse]]
                /\ UNCHANGED <<conversations, messages, tasks, now, context_limit, frontend>>

\* Variant: the context is loaded after the user message was stored and
\* holds it
get_recent_messages_after_store(t) ==
    /\ turn[t].pc = "Resolved"
    /\ LET own == [conversation_id |-> turn[t].conversation, role |-> "user",
                   content |-> turn[t].message, tool_calls |-> <<>>,
                   created_at |-> now, turn |-> t]
       IN  \E h \in get_conversation_messages(Append(messages, own),
                                               turn[t].conversation, context_limit) :
              turn' = [turn EXCEPT ![t] = [@ EXCEPT !.pc = "ContextLoaded", !.history = h]]
    /\ UNCHANGED <<conversations, messages, tasks, now, context_limit, frontend>>

\* Variant: the worker keeps the history of a conversation in memory and a
\* later request on that conversation is served from it
get_recent_messages_cached(t) ==
    /\ turn[t].pc = "Resolved"
    /\ LET cached == {turn[o].history : o \in {x \in Turns \ {t} :
                          /\ turn[x].conversation = turn[t].conversation
                          /\ turn[x].pc \notin {"idle", "Received", "Resolved"}}}
       IN  \E h \in (IF cached # {} THEN cached
                     ELSE get_conversation_messages(messages, turn[t].conversation,
                                                    context_limit)) :
              turn' = [turn EXCEPT ![t] = [@ EXCEPT !.pc = "ContextLoaded", !.history = h]]
    /\ UNCHANGED <<conversations, messages, tasks, now, context_limit, frontend>>

\* 2. Load recent messages (context)
get_recent_messages(t) ==
    /\ turn[t].pc = "Resolved"
    /\ \E h \in get_conversation_messages(messages, turn[t].conversation, context_limit) :
          turn' = [turn EXCEPT ![t] = [@ EXCEPT !.pc = "ContextLoaded", !.history = h]]
    /\ UNCHANGED <<conversations, messages, tasks, now, context_limit, frontend>>

\* 3. and 5. add_message up to the commit: the Message is built (created_at)
\* and the conversation's new updated_at is read from the clock
add_message_begin(t) ==
    /\ turn[t].pc \in {"ContextLoaded", "ToolsExecuted"}
    /\ \E created \in utcnow(now) : \E updated \in utcnow(created) :
          LET r == turn[t]
              user == r.pc = "ContextLoaded"
              row == [conversation_id |-> r.conversation,
                      role |-> IF user THEN "user" ELSE "assistant",
                      content |-> IF user THEN r.message ELSE r.content,
                      tool_calls |-> IF user THEN <<>> ELSE r.tool_calls,
                      created_at |-> created, turn |-> t]
          IN  /\ turn' = [turn EXCEPT ![t] = [@ EXCEPT
                              !.pc = IF user THEN "StoringUser" ELSE "StoringAssistant",
                              !.pending = row, !.pending_updated = updated]]
              /\ now' = updated
    /\ UNCHANGED <<conversations, messages, tasks, context_limit, frontend>>

\* session.commit() of add_message
add_message_commit(t) ==
    /\ turn[t].pc \in {"StoringUser", "StoringAssistant"}
    /\ LET r == turn[t]
           done == add_message(messages, conversations, r.pending, r.pending_updated)
       IN  /\ messages' = done.messages
           /\ conversations' = done.conversations
           /\ turn' = [turn EXCEPT ![t] = [@ EXCEPT
                           !.pc = IF r.pc = "StoringUser" THEN "UserStored" ELSE "Persisted",
                           !.pending = NoRow, !.pending_updated = 0]]
    /\ UNCHANGED <<tasks, now, context_limit, frontend>>

\* The argument of agent_service.run: history + [message]
AgentInput(history, message) == history \o <<message>>

\* 4. Run agent with context: the reply and the number of tool calls it asks for
agent_run(t) ==
    /\ turn[t].pc = "UserStored"
    /\ \E n \in 0..MaxToolCalls :
          turn' = [turn EXCEPT ![t] = [@ EXCEPT
                      !.pc = IF n = 0 THEN "ToolsExecuted" ELSE "Reasoned",
                      !.agent = "ok", !.content = "reply", !.requested = n,
                      !.agent_input = AgentInput(turn[t].history, turn[t].message)]]
    /\ UNCHANGED <<conversations, messages, tasks, now, context_limit, frontend>>

\* Variant: the agent's exception is not caught, the turn ends with an error
agent_fails_uncaught(t) ==
    /\ turn[t].pc = "UserStored"
    /\ \E f \in AgentFailures :
          turn' = [turn EXCEPT ![t] = [@ EXCEPT !.pc = "Failed", !.agent = f,
                      !.agent_input = AgentInput(turn[t].history, turn[t].message),
                      !.failed_at = "UserStored", !.failure = f,
                      !.response = [status |-> f, detail |-> "Agent error"]]]
    /\ UNCHANGED <<conversations, messages, tasks, now, context_limit, frontend>>

\* 4. The agent run times out or returns an unparsable answer: the reply
\* becomes the fixed apology and no tool call is made
agent_fails(t) ==
    /\ turn[t].pc = "UserStored"
    /\ \E f \in AgentFailures :
          turn' = [turn EXCEPT ![t] = [@ EXCEPT !.pc = "ToolsExecuted",
                      !.agent = f, !.content = APOLOGY, !.requested = 0,
                      !.agent_input = AgentInput(turn[t].history, turn[t].message)]]
    /\ UNCHANGED <<conversations, messages, tasks, now, context_limit, frontend>>

\* Variant: the first failed call ends the tool phase
ContinueAfter_only_ok(output) == output = "ok"

\* Whether the remaining requested calls still run after this outcome
ContinueAfter(output) == TRUE

\* Variant: a failed call is tried again instead of being recorded
RecordCall_retry_failed(calls, rec) == IF rec.output = "ok" THEN Append(calls, rec) ELSE calls

\* The record of an executed call joins the turn's tool_calls
RecordCall(calls, rec) == Append(calls, rec)

\* The tool calls an agent run may ask for: every tool, with or without a
\* user_id smuggled into the input
AllCalls == [tool : ToolNames, input : [title : Titles, user_id : {NoUser} \cup Users]]

\* The calls of a plain "add a task" conversation
BasicCalls == {c \in AllCalls : c.tool = "add_task" /\ c.input.user_id = NoUser}

\* Variant: the tool stores a row of role "tool" for its result
execute_tool_stores_row(t, calls_offered) ==
    /\ turn[t].pc = "Reasoned"
    /\ \E call \in calls_offered :
          LET r == turn[t]
              tool == call.tool
              input == call.input
          IN  \E o \in call_tool(tasks, tool, input, ToolContextUser(r.user_id, input)) :
                 LET calls == RecordCall(r.tool_calls,
                                     [tool |-> tool, input |-> input,
                                      output |-> o.output, touched |-> o.touched])
                 IN  /\ tasks' = o.tasks
                     /\ messages' = Append(messages,
                            [conversation_id |-> r.conversation, role |-> "tool",
                             content |-> o.output, tool_calls |-> <<>>,
                             created_at |-> now, turn |-> t])
                     /\ turn' = [turn EXCEPT ![t] = [@ EXCEPT
                                   !.tool_calls = calls,
                                   !.pc = IF Len(calls) = r.requested \/ ~ContinueAfter(o.output)
                                          THEN "ToolsExecuted" ELSE "Reasoned"]]
    /\ UNCHANGED <<conversations, now, context_limit, frontend>>

\* The next requested tool call, run under the injected identity
execute_tool(t, calls_offered) ==
    /\ turn[t].pc = "Reasoned"
    /\ \E call \in calls_offered :
          LET r == turn[t]
              tool == call.tool
              input == call.input
          IN  \E o \in call_tool(tasks, tool, input, ToolContextUser(r.user_id, input)) :
                 LET calls == RecordCall(r.tool_calls,
                                     [tool |-> tool, input |-> input,
                                      output |-> o.output, touched |-> o.touched])
                 IN  /\ tasks' = o.tasks
                     /\ turn' = [turn EXCEPT ![t] = [@ EXCEPT
                                   !.tool_calls = calls,
                                   !.pc = IF Len(calls) = r.requested \/ ~ContinueAfter(o.output)
                                          THEN "ToolsExecuted" ELSE "Reasoned"]]
    /\ UNCHANGED <<conversations, messages, now, context_limit, frontend>>

\* Variant: the response echoes the id of the request, none for a new chat
respond_echoes_request(t) ==
    /\ turn[t].pc = "Persisted"
    /\ LET r == turn[t] IN
       turn' = [turn EXCEPT ![t] = [@ EXCEPT !.pc = "Responded",
                   !.response = [status |-> "ok", conversation_id |-> r.conversation_id,
                                 message |-> [role |-> "assistant", content |-> r.content],
                                 tool_calls |-> r.tool_calls]]]
    /\ UNCHANGED <<conversations, messages, tasks, now, context_limit, frontend>>

\* 6. Return response
respond(t) ==
    /\ turn[t].pc = "Persisted"
    /\ LET r == turn[t] IN
       turn' = [turn EXCEPT ![t] = [@ EXCEPT !.pc = "Responded",
                   !.response = [status |-> "ok", conversation_id |-> r.conversation,
                                 message |-> [role |-> "assistant", content |-> r.content],
                                 tool_calls |-> r.tool_calls]]]
    /\ UNCHANGED <<conversations, messages, tasks, now, context_limit, frontend>>

StorageSteps == {"Received", "Resolved", "StoringUser", "StoringAssistant"}

\* The step a storage operation leads to when it succeeds
AfterStorage(pc) ==
    CASE pc = "Received" -> "Resolved"
      [] pc = "Resolved" -> "ContextLoaded"
      [] pc = "StoringUser" -> "UserStored"
      [] pc = "StoringAssistant" -> "Persisted"

\* Variant: the storage exception is swallowed and the turn carries on
storage_failure_swallowed(t) ==
    /\ turn[t].pc \in StorageSteps
    /\ turn' = [turn EXCEPT ![t] = [@ EXCEPT !.pc = AfterStorage(turn[t].pc),
                    !.failed_at = turn[t].pc, !.failure = "Unavailable",
                    !.pending = NoRow, !.pending_updated = 0]]
    /\ UNCHANGED <<conversations, messages, tasks, now, context_limit, frontend>>

\* A storage operation raises: nothing of it is committed and the turn ends
\* with a retryable error
storage_unavailable(t) ==
    /\ turn[t].pc \in StorageSteps
    /\ turn' = [turn EXCEPT ![t] = [@ EXCEPT !.pc = "Failed", !.failed_at = turn[t].pc,
                    !.failure = "Unavailable", !.pending = NoRow, !.pending_updated = 0,
                    !.response = UnavailableResponse]]
    /\ UNCHANGED <<conversations, messages, tasks, now, context_limit, frontend>>

handle_chat(t, calls_offered) ==
    \/ get_or_create_conversation(t)
    \/ get_recent_messages(t)
    \/ add_message_begin(t)
    \/ add_message_commit(t)
    \/ agent_run(t)
    \/ agent_fails(t)
    \/ execute_tool(t, calls_offered)
    \/ respond(t)
    \/ storage_unavailable(t)

AnyConv == {NoConv} \cup ConvIds

Next == \E t \in Turns : Receive(t, Users, AnyConv) \/ handle_chat(t, BasicCalls)

Spec == Init /\ [][Next]_vars

\* Every started turn keeps running: each await returns or raises (the agent
\* run within its timeout), a worker is never descheduled forever.
\* The turns of one user, each on a new conversation or on the first one
NextOneUser == \E t \in Turns : Receive(t, {"u1"}, {NoConv, 1}) \/ handle_chat(t, BasicCalls)

FairSpec == Init /\ [][NextOneUser]_vars /\ \A t \in Turns : WF_vars(handle_chat(t, BasicCalls))

\* One turn against a task table that may already hold a task of either user,
\* the agent free to ask for any tool call
SeedTasks == {{}} \cup {{[id |-> 1, user_id |-> u, title |-> <<"milk">>,
                           completed |-> FALSE, description |-> ""]} : u \in Users}

InitTools ==
    /\ conversations = <<>>
    /\ messages = <<>>
    /\ tasks \in SeedTasks
    /\ now = 0
    /\ context_limit = CHAT_CONTEXT_LIMIT
    /\ turn = [t \in Turns |-> IdleTurn]
    /\ FrontendInit

NextTools == Receive(1, Users, AnyConv) \/ handle_chat(1, AllCalls)

ToolSpec == InitTools /\ [][NextTools]_vars

\* The titles of the tasks a user may hold, and the descriptions asked for
TaskA == [id |-> 1, user_id |-> "u1", title |-> <<"Buy", "Groceries">>,
          completed |-> FALSE, description |-> ""]
TaskB == [id |-> 2, user_id |-> "u1", title |-> <<"buy", "milk">>,
          completed |-> FALSE, description |-> ""]
TaskC == [id |-> 3, user_id |-> "u1", title |-> <<"Groceries", "list">>,
          completed |-> FALSE, description |-> ""]
TaskD == [id |-> 4, user_id |-> "u2", title |-> <<"meeting">>,
          completed |-> FALSE, description |-> ""]

Descriptions == {<<"buy", "groceries">>, <<"groceries">>, <<"buy">>, <<"meeting">>,
                 <<"Milk">>}

\* complete/delete "the X task"
LookupCalls == [tool : {"complete_task", "delete_task"},
                input : [title : Descriptions, user_id : {NoUser}]]

\* One turn of u1 against a task table holding any of the four tasks
InitLookup ==
    /\ conversations = <<>>
    /\ messages = <<>>
    /\ tasks \in SUBSET {TaskA, TaskB, TaskC, TaskD}
    /\ now = 0
    /\ context_limit = CHAT_CONTEXT_LIMIT
    /\ turn = [t \in Turns |-> IdleTurn]
    /\ FrontendInit

NextLookup == Receive(1, {"u1"}, {NoConv}) \/ handle_chat(1, LookupCalls)

LookupSpec == InitLookup /\ [][NextLookup]_vars

\* The server configured with a small CHAT_CONTEXT_LIMIT, so that a
\* conversation outgrows the window
InitWindow ==
    /\ conversations = <<>>
    /\ messages = <<>>
    /\ tasks = {}
    /\ now = 0
    /\ context_limit \in 1..MaxWindow
    /\ turn = [t \in Turns |-> IdleTurn]
    /\ FrontendInit

WindowSpec == InitWindow /\ [][NextOneUser]_vars

\* ------------------------------------------------------------------ ChatInput
\* textarea onChange: setMessage(e.target.value.slice(0, 2000))
onChange(value) ==
    /\ ~(chatInput.isLoading \/ chatInput.disabled)
    /\ chatInput' = [chatInput EXCEPT !.message = slice(value, MAX_MESSAGE_LENGTH),
                                      !.input = value]
    /\ UNCHANGED <<backend, chatPage, auth, tasksPage>>

\* A quick action button: setMessage(action.label)
quickAction(label) ==
    /\ ~(chatInput.isLoading \/ chatInput.disabled)
    /\ chatInput' = [chatInput EXCEPT !.message = label]
    /\ UNCHANGED <<backend, chatPage, auth, tasksPage>>

\* Variant: the draft is sent as typed whenever it is not empty
handleSubmit_untrimmed ==
    /\ chatInput.submits < MaxSubmits
    /\ IF NonEmpty(chatInput.message) /\ ~chatInput.isLoading /\ ~chatInput.disabled
       THEN chatInput' = [chatInput EXCEPT !.sent = Append(@, chatInput.message),
                                           !.message = EmptyText,
                                           !.submits = @ + 1]
       ELSE chatInput' = [chatInput EXCEPT !.submits = @ + 1]
    /\ UNCHANGED <<backend, chatPage, auth, tasksPage>>

\* handleSubmit, from the Enter key (the textarea is not disabled) or from any
\* caller of the handler
handleSubmit ==
    /\ chatInput.submits < MaxSubmits
    /\ LET trimmedMessage == trim(chatInput.message) IN
       IF NonEmpty(trimmedMessage) /\ ~chatInput.isLoading /\ ~chatInput.disabled
       THEN chatInput' = [chatInput EXCEPT !.sent = Append(@, trimmedMessage),
                                           !.message = EmptyText,
                                           !.submits = @ + 1]
       ELSE chatInput' = [chatInput EXCEPT !.submits = @ + 1]
    /\ UNCHANGED <<backend, chatPage, auth, tasksPage>>

\* The parent renders ChatInput with new props
setProps ==
    /\ \E l \in BOOLEAN, d \in BOOLEAN :
          /\ <<l, d>> # <<chatInput.isLoading, chatInput.disabled>>
          /\ chatInput' = [chatInput EXCEPT !.isLoading = l, !.disabled = d]
    /\ UNCHANGED <<backend, chatPage, auth, tasksPage>>

NextInput ==
    \/ \E value \in TextValues : onChange(value)
    \/ \E label \in QuickActionLabels : quickAction(label)
    \/ handleSubmit
    \/ setProps

InputSpec == Init /\ [][NextInput]_vars

\* ------------------------------------------------------------------ chat page
\* The user is signed in and the dashboard is shown
AuthSignedIn ==
    [user |-> "u1", isLoading |-> FALSE, session |-> TRUE,
     pathname |-> "/dashboard", calls |-> {}, visits |-> 0, hadSession |-> TRUE]

\* ChatInput is rendered (no history is loading) and its handleSubmit would
\* call onSend: its props isLoading and disabled are both false
OnSendEnabled ==
    /\ ~chatPage.isLoadingHistory
    /\ ~chatPage.isLoading /\ ~chatPage.isLoadingHistory

IsTempOf(m, t) == m.id = "temp" /\ m.turn = t

WithoutTemp(msgs, t) == SelectSeq(msgs, LAMBDA m : ~IsTempOf(m, t))

\* handleSendMessage up to the await: the optimistic message is appended and
\* POST /api/{user_id}/chat is issued with the conversation id of this render
handleSendMessage(t) ==
    /\ OnSendEnabled
    /\ turn[t].pc = "idle"
    /\ \A o \in Turns : o < t => turn[o].pc # "idle"
    /\ chatPage' = [chatPage EXCEPT
          !.messages = Append(@, ViewMessage("temp", "user", t, chatPage.conversationId)),
          !.isLoading = TRUE,
          !.error = "none",
          !.sends = @ \cup {[turn |-> t, conversationId |-> chatPage.conversationId]}]
    /\ turn' = [turn EXCEPT ![t] = [@ EXCEPT !.pc = "Received", !.user_id = "u1",
                                   !.conversation_id = chatPage.conversationId,
                                   !.message = "msg"]]
    /\ UNCHANGED <<conversations, messages, tasks, now, context_limit,
                   chatInput, auth, tasksPage>>

\* Variant: the response's messages are appended and the optimistic message
\* stays
sendMessage_resolves_keeps_temp(s) ==
    /\ s \in chatPage.sends
    /\ turn[s.turn].pc = "Responded"
    /\ LET response == turn[s.turn].response
           id == IF s.conversationId = NoConv THEN response.conversation_id
                 ELSE chatPage.conversationId
           reload == id # chatPage.conversationId /\ id # NoConv
       IN  chatPage' = [chatPage EXCEPT
              !.conversationId = id,
              !.messages = @ \o
                  <<ViewMessage("user", "user", s.turn, response.conversation_id),
                    ViewMessage("server", response.message.role, s.turn,
                                response.conversation_id)>>,
              !.isLoading = FALSE,
              !.sends = @ \ {s},
              !.isLoadingHistory = IF reload THEN TRUE ELSE @,
              !.error = IF reload THEN "none" ELSE @,
              !.loads = IF reload THEN @ \cup {id} ELSE @]
    /\ UNCHANGED <<backend, chatInput, auth, tasksPage>>

\* handleSendMessage after the await returned: the conversation id is taken
\* over if this render had none, the optimistic message is replaced by the
\* user message and the response's message, isLoading is reset; a changed,
\* non-null conversationId makes the effect call loadConversationHistory
sendMessage_resolves(s) ==
    /\ s \in chatPage.sends
    /\ turn[s.turn].pc = "Responded"
    /\ LET response == turn[s.turn].response
           id == IF s.conversationId = NoConv THEN response.conversation_id
                 ELSE chatPage.conversationId
           reload == id # chatPage.conversationId /\ id # NoConv
       IN  chatPage' = [chatPage EXCEPT
              !.conversationId = id,
              !.messages = WithoutTemp(@, s.turn) \o
                  <<ViewMessage("user", "user", s.turn, response.conversation_id),
                    ViewMessage("server", response.message.role, s.turn,
                                response.conversation_id)>>,
              !.isLoading = FALSE,
              !.sends = @ \ {s},
              !.isLoadingHistory = IF reload THEN TRUE ELSE @,
              !.error = IF reload THEN "none" ELSE @,
              !.loads = IF reload THEN @ \cup {id} ELSE @]
    /\ UNCHANGED <<backend, chatInput, auth, tasksPage>>

\* handleSendMessage after the await raised, because the server answered with
\* an error or because the request failed on the way (the connection or a
\* proxy gave up) whatever the server is doing: the error is set, the
\* optimistic message removed, isLoading reset
sendMessage_rejects(s) ==
    /\ s \in chatPage.sends
    /\ chatPage' = [chatPage EXCEPT
          !.error = IF turn[s.turn].pc = "Failed" THEN turn[s.turn].response.status
                    ELSE "Failed to send message",
          !.messages = WithoutTemp(@, s.turn),
          !.isLoading = FALSE,
          !.sends = @ \ {s}]
    /\ UNCHANGED <<backend, chatInput, auth, tasksPage>>

\* GET /api/{user_id}/conversations/{id}/messages as the view shows it
History(rows) ==
    [i \in 1..Len(rows) |->
        ViewMessage("server", rows[i].role, rows[i].turn, rows[i].conversation_id)]

\* loadConversationHistory after the await returned: the list is replaced by
\* the history of the conversation the load was started for
getMessages_resolves(c) ==
    /\ c \in chatPage.loads
    /\ \E rows \in get_conversation_messages(messages, c, Len(messages)) :
          chatPage' = [chatPage EXCEPT !.messages = History(rows),
                                       !.isLoadingHistory = FALSE,
                                       !.loads = @ \ {c}]
    /\ UNCHANGED <<backend, chatInput, auth, tasksPage>>

\* loadConversationHistory after the await raised: the error is only logged
getMessages_rejects(c) ==
    /\ c \in chatPage.loads
    /\ chatPage' = [chatPage EXCEPT !.isLoadingHistory = FALSE, !.loads = @ \ {c}]
    /\ UNCHANGED <<backend, chatInput, auth, tasksPage>>

\* The New Chat button
handleNewChat ==
    /\ chatPage' = [chatPage EXCEPT !.messages = <<>>, !.conversationId = NoConv,
                                    !.error = "none"]
    /\ UNCHANGED <<backend, chatInput, auth, tasksPage>>

\* ErrorMessage onRetry: setError(null)
dismissError ==
    /\ chatPage.error # "none"
    /\ chatPage' = [chatPage EXCEPT !.error = "none"]
    /\ UNCHANGED <<backend, chatInput, auth, tasksPage>>

\* The chat view of a signed-in user: ChatPage, or ChatContainer opened on the
\* user's existing conversation 1
InitView ==
    /\ \E c \in {NoConv, 1} :
          /\ conversations = IF c = NoConv THEN <<>>
                             ELSE create_conversation(<<>>, 1, "u1", 0, 0)
          /\ chatPage = ChatPageState(c)
    /\ messages = <<>>
    /\ tasks = {}
    /\ now = 0
    /\ context_limit = CHAT_CONTEXT_LIMIT
    /\ turn = [t \in Turns |-> IdleTurn]
    /\ chatInput = ChatInputInit
    /\ auth = AuthSignedIn
    /\ tasksPage = TasksPageInit

NextView ==
    \/ \E t \in Turns : handleSendMessage(t)
    \/ \E s \in chatPage.sends : sendMessage_resolves(s)
    \/ \E s \in chatPage.sends : sendMessage_rejects(s)
    \/ \E c \in chatPage.loads : getMessages_resolves(c)
    \/ \E c \in chatPage.loads : getMessages_rejects(c)
    \/ handleNewChat
    \/ dismissError
    \/ \E t \in Turns : handle_chat(t, BasicCalls)

ViewSpec == InitView /\ [][NextView]_vars

\* ------------------------------------------------------------------ auth
Paths == {"/", "/signin", "/dashboard"}

\* AuthContext value: isAuthenticated: !!user
isAuthenticated(a) == a.user # NoUser

\* Variant: the dashboard is shown as soon as a user is present
DashboardLayout_ignores_loading(a) ==
    IF ~isAuthenticated(a) \/ a.user = NoUser THEN "spinner" ELSE "children"

\* What DashboardLayout returns
DashboardLayout(a) ==
    IF a.isLoading \/ ~isAuthenticated(a) \/ a.user = NoUser THEN "spinner" ELSE "children"

\* What AuthLayout returns
AuthLayout(a) ==
    IF a.isLoading THEN "spinner"
    ELSE IF isAuthenticated(a) THEN "spinner" ELSE "children"

\* The effects of the mounted layout, run after each render: DashboardLayout
\* pushes /signin when the check is over and nobody is signed in, AuthLayout
\* pushes /dashboard when the check is over and somebody is
LayoutEffects(a) ==
    IF a.pathname = "/dashboard" /\ ~a.isLoading /\ ~isAuthenticated(a)
    THEN [a EXCEPT !.pathname = "/signin"]
    ELSE IF a.pathname = "/signin" /\ ~a.isLoading /\ isAuthenticated(a)
    THEN [a EXCEPT !.pathname = "/dashboard"]
    ELSE a

AuthUnchanged == UNCHANGED <<backend, chatInput, chatPage, tasksPage>>

\* checkAuth: api.auth.me() returned the user of the session
me_resolves ==
    /\ "me" \in auth.calls
    /\ auth.session
    /\ auth' = LayoutEffects([auth EXCEPT !.user = "u1", !.isLoading = FALSE,
                                          !.calls = @ \ {"me"}])
    /\ AuthUnchanged

\* checkAuth: api.auth.me() raised (no session, or the request failed)
me_rejects ==
    /\ "me" \in auth.calls
    /\ auth' = LayoutEffects([auth EXCEPT !.user = NoUser, !.isLoading = FALSE,
                                          !.calls = @ \ {"me"}])
    /\ AuthUnchanged

\* refreshUser is called
refreshUser ==
    /\ "refresh" \notin auth.calls
    /\ auth.visits < MaxVisits
    /\ auth' = [auth EXCEPT !.calls = @ \cup {"refresh"}, !.visits = @ + 1]
    /\ AuthUnchanged

refresh_resolves ==
    /\ "refresh" \in auth.calls
    /\ auth.session
    /\ auth' = LayoutEffects([auth EXCEPT !.user = "u1", !.calls = @ \ {"refresh"}])
    /\ AuthUnchanged

refresh_rejects ==
    /\ "refresh" \in auth.calls
    /\ auth' = LayoutEffects([auth EXCEPT !.user = NoUser, !.calls = @ \ {"refresh"}])
    /\ AuthUnchanged

\* The sign-in form, shown by AuthLayout, calls signin
signin ==
    /\ auth.pathname = "/signin"
    /\ AuthLayout(auth) = "children"
    /\ "signin" \notin auth.calls
    /\ auth' = [auth EXCEPT !.calls = @ \cup {"signin"}]
    /\ AuthUnchanged

\* api.auth.signin returned: the server has set the cookie, setUser(user)
signin_resolves ==
    /\ "signin" \in auth.calls
    /\ auth' = LayoutEffects([auth EXCEPT !.user = "u1", !.session = TRUE,
                                          !.hadSession = TRUE,
                                          !.calls = @ \ {"signin"}])
    /\ AuthUnchanged

signin_rejects ==
    /\ "signin" \in auth.calls
    /\ auth' = [auth EXCEPT !.calls = @ \ {"signin"}]
    /\ AuthUnchanged

\* handleSignout, from the header DashboardLayout shows around its children
handleSignout ==
    /\ auth.pathname = "/dashboard"
    /\ DashboardLayout(auth) = "children"
    /\ "signout" \notin auth.calls
    /\ auth' = [auth EXCEPT !.calls = @ \cup {"signout"}]
    /\ AuthUnchanged

\* api.auth.signout returned: setUser(null), router.push('/signin')
signout_resolves ==
    /\ "signout" \in auth.calls
    /\ auth' = LayoutEffects([auth EXCEPT !.user = NoUser, !.session = FALSE,
                                          !.pathname = "/signin",
                                          !.calls = @ \ {"signout"}])
    /\ AuthUnchanged

signout_rejects ==
    /\ "signout" \in auth.calls
    /\ auth' = [auth EXCEPT !.calls = @ \ {"signout"}]
    /\ AuthUnchanged

\* The session ends on the server
sessionExpires ==
    /\ auth.session
    /\ auth' = [auth EXCEPT !.session = FALSE]
    /\ AuthUnchanged

\* A link is followed: the layout of the new path mounts, AuthProvider stays
navigate(path) ==
    /\ auth.visits < MaxVisits
    /\ path # auth.pathname
    /\ auth' = LayoutEffects([auth EXCEPT !.pathname = path, !.visits = @ + 1])
    /\ AuthUnchanged

\* The page is loaded anew at a path: AuthProvider mounts again and checks
reload(path) ==
    /\ auth.visits < MaxVisits
    /\ auth' = [AuthState(path, auth.session) EXCEPT !.visits = auth.visits + 1,
                                                     !.hadSession = auth.hadSession]
    /\ AuthUnchanged

\* A visitor opens a page, with or without a session
InitAuth ==
    /\ conversations = <<>>
    /\ messages = <<>>
    /\ tasks = {}
    /\ now = 0
    /\ context_limit = CHAT_CONTEXT_LIMIT
    /\ turn = [t \in Turns |-> IdleTurn]
    /\ chatInput = ChatInputInit
    /\ chatPage = ChatPageInit
    /\ tasksPage = TasksPageInit
    /\ \E path \in Paths, session \in BOOLEAN : auth = AuthState(path, session)

checkAuth == me_resolves \/ me_rejects

NextAuth ==
    \/ checkAuth
    \/ refreshUser \/ refresh_resolves \/ refresh_rejects
    \/ signin \/ signin_resolves \/ signin_rejects
    \/ handleSignout \/ signout_resolves \/ signout_rejects
    \/ sessionExpires
    \/ \E path \in Paths : navigate(path)
    \/ \E path \in Paths : reload(path)

\* api.auth.me() returns or raises
AuthSpec == InitAuth /\ [][NextAuth]_vars /\ WF_vars(checkAuth)

\* ------------------------------------------------------------------ tasks page
\* The tasks the signed-in user has on the server when the page opens
Task1 == [id |-> 1, user_id |-> "u1", title |-> <<"buy", "milk">>,
          completed |-> FALSE, description |-> ""]
Task2 == [id |-> 2, user_id |-> "u1", title |-> <<"meeting">>,
          completed |-> FALSE, description |-> ""]

\* The id the server gives the task created from the page
CreatedId == 3

\* The ids of the tasks the page can show
TaskRange == {Task1.id, Task2.id, CreatedId}

\* The title typed into TaskForm
FormTitle == <<"groceries">>

\* api.tasks.list: the user's tasks, by id
RECURSIVE ById(_)
ById(ts) ==
    IF ts = {} THEN <<>>
    ELSE LET k == CHOOSE x \in ts : \A y \in ts : x.id <= y.id
         IN  <<k>> \o ById(ts \ {k})

\* tasks.map((t) => (t.id === updatedTask.id ? updatedTask : t))
MapReplace(list, updatedTask) ==
    [i \in 1..Len(list) |-> IF list[i].id = updatedTask.id THEN updatedTask ELSE list[i]]

\* tasks.filter((t) => t.id !== taskId)
FilterOut(list, taskId) == SelectSeq(list, LAMBDA t : t.id # taskId)

\* A request of the page: the operation, the task it is about, and `tasks` as
\* the render that started the handler saw it
TaskCall(op, id, list) == [op |-> op, id |-> id, tasks |-> list]

Shown(id) == \E i \in 1..Len(tasksPage.tasks) : tasksPage.tasks[i].id = id

Pending(op, id) == \E c \in tasksPage.calls : c.op = op /\ c.id = id

Confirm(id, op, task) ==
    [i \in DOMAIN tasksPage.confirmed \cup {id} |->
        IF i = id THEN [op |-> op, task |-> task] ELSE tasksPage.confirmed[i]]

TasksUnchanged == UNCHANGED <<conversations, messages, now, context_limit, turn,
                              chatInput, chatPage, auth>>

\* loadTasks up to the await (from the mount effect or from ErrorMessage onRetry)
loadTasks ==
    /\ tasksPage.error # "none"
    /\ tasksPage.issued < MaxOps
    /\ tasksPage' = [tasksPage EXCEPT !.isLoadingTasks = TRUE, !.error = "none",
                        !.calls = @ \cup {TaskCall("list", 0, tasksPage.tasks)},
                        !.issued = @ + 1]
    /\ UNCHANGED tasks
    /\ TasksUnchanged

\* loadTasks after the await returned
list_resolves(c) ==
    /\ c \in tasksPage.calls /\ c.op = "list"
    /\ tasksPage' = [tasksPage EXCEPT !.tasks = ById({k \in tasks : k.user_id = "u1"}),
                        !.isLoadingTasks = FALSE,
                        !.calls = @ \ {c}]
    /\ UNCHANGED tasks
    /\ TasksUnchanged

\* handleCreateTask up to the await
handleCreateTask ==
    /\ tasksPage.editingTask = 0
    /\ ~(tasksPage.isCreating \/ tasksPage.isUpdating)
    /\ tasksPage.issued < MaxOps
    /\ CreatedId \notin DOMAIN tasksPage.confirmed
    /\ tasksPage' = [tasksPage EXCEPT !.isCreating = TRUE, !.error = "none",
                        !.calls = @ \cup {TaskCall("create", CreatedId, tasksPage.tasks)},
                        !.issued = @ + 1]
    /\ UNCHANGED tasks
    /\ TasksUnchanged

\* handleCreateTask after the await returned: setTasks([newTask, ...tasks])
create_resolves(c) ==
    /\ c \in tasksPage.calls /\ c.op = "create"
    /\ LET newTask == [id |-> c.id, user_id |-> "u1", title |-> FormTitle,
                       completed |-> FALSE, description |-> ""]
       IN  /\ tasks' = tasks \cup {newTask}
           /\ tasksPage' = [tasksPage EXCEPT !.tasks = <<newTask>> \o c.tasks,
                               !.isCreating = FALSE,
                               !.calls = @ \ {c},
                               !.confirmed = Confirm(c.id, "create", newTask)]
    /\ TasksUnchanged

\* TaskItem's edit button: setEditingTask(task)
onEdit(id) ==
    /\ ~tasksPage.isLoadingTasks /\ Shown(id)
    /\ tasksPage.editingTask # id
    /\ tasksPage' = [tasksPage EXCEPT !.editingTask = id]
    /\ UNCHANGED tasks
    /\ TasksUnchanged

\* handleUpdateTask up to the await
handleUpdateTask ==
    /\ tasksPage.editingTask # 0
    /\ ~(tasksPage.isCreating \/ tasksPage.isUpdating)
    /\ tasksPage.issued < MaxOps
    /\ tasksPage' = [tasksPage EXCEPT !.isUpdating = TRUE, !.error = "none",
                        !.calls = @ \cup {TaskCall("update", tasksPage.editingTask,
                                                   tasksPage.tasks)},
                        !.issued = @ + 1]
    /\ UNCHANGED tasks
    /\ TasksUnchanged

\* handleUpdateTask after the await returned
update_resolves(c) ==
    /\ c \in tasksPage.calls /\ c.op = "update"
    /\ \E k \in tasks :
          /\ k.id = c.id
          /\ LET updatedTask == [k EXCEPT !.title = FormTitle] IN
             /\ tasks' = (tasks \ {k}) \cup {updatedTask}
             /\ tasksPage' = [tasksPage EXCEPT !.tasks = MapReplace(c.tasks, updatedTask),
                                 !.editingTask = 0,
                                 !.isUpdating = FALSE,
                                 !.calls = @ \ {c},
                                 !.confirmed = Confirm(c.id, "update", updatedTask)]
    /\ TasksUnchanged

\* TaskItem.handleToggle and handleToggleComplete up to the await; the button
\* of an item is disabled while that item toggles or deletes
handleToggleComplete(taskId) ==
    /\ ~tasksPage.isLoadingTasks /\ Shown(taskId)
    /\ ~Pending("toggle", taskId) /\ ~Pending("delete", taskId)
    /\ tasksPage.issued < MaxOps
    /\ tasksPage' = [tasksPage EXCEPT
                        !.calls = @ \cup {TaskCall("toggle", taskId, tasksPage.tasks)},
                        !.issued = @ + 1]
    /\ UNCHANGED tasks
    /\ TasksUnchanged

\* handleToggleComplete after the await returned
toggle_resolves(c) ==
    /\ c \in tasksPage.calls /\ c.op = "toggle"
    /\ \E k \in tasks :
          /\ k.id = c.id
          /\ LET updatedTask == [k EXCEPT !.completed = ~@] IN
             /\ tasks' = (tasks \ {k}) \cup {updatedTask}
             /\ tasksPage' = [tasksPage EXCEPT !.tasks = MapReplace(c.tasks, updatedTask),
                                 !.calls = @ \ {c},
                                 !.confirmed = Confirm(c.id, "toggle", updatedTask)]
    /\ TasksUnchanged

\* TaskItem.handleDeleteConfirm and handleDeleteTask up to the await
handleDeleteTask(taskId) ==
    /\ ~tasksPage.isLoadingTasks /\ Shown(taskId)
    /\ ~Pending("delete", taskId)
    /\ tasksPage.issued < MaxOps
    /\ tasksPage' = [tasksPage EXCEPT
                        !.calls = @ \cup {TaskCall("delete", taskId, tasksPage.tasks)},
                        !.issued = @ + 1]
    /\ UNCHANGED tasks
    /\ TasksUnchanged

\* handleDeleteTask after the await returned
delete_resolves(c) ==
    /\ c \in tasksPage.calls /\ c.op = "delete"
    /\ \E k \in tasks :
          /\ k.id = c.id
          /\ tasks' = tasks \ {k}
          /\ tasksPage' = [tasksPage EXCEPT !.tasks = FilterOut(c.tasks, c.id),
                              !.calls = @ \ {c},
                              !.confirmed = Confirm(c.id, "delete", k)]
    /\ TasksUnchanged

\* The await of a request raised (the server refused it or it failed on the
\* way): the catch branch sets the error, finally resets the flag
call_rejects(c) ==
    /\ c \in tasksPage.calls
    /\ tasksPage' = [tasksPage EXCEPT
                        !.error = "Failed",
                        !.isLoadingTasks = IF c.op = "list" THEN FALSE ELSE @,
                        !.isCreating = IF c.op = "create" THEN FALSE ELSE @,
                        !.isUpdating = IF c.op = "update" THEN FALSE ELSE @,
                        !.calls = @ \ {c}]
    /\ UNCHANGED tasks
    /\ TasksUnchanged

\* The tasks page of a signed-in user with two tasks, its mount effect having
\* called loadTasks
InitTasksPage ==
    /\ conversations = <<>>
    /\ messages = <<>>
    /\ tasks = {Task1, Task2}
    /\ now = 0
    /\ context_limit = CHAT_CONTEXT_LIMIT
    /\ turn = [t \in Turns |-> IdleTurn]
    /\ chatInput = ChatInputInit
    /\ chatPage = ChatPageInit
    /\ auth = AuthSignedIn
    /\ tasksPage = [TasksPageInit EXCEPT !.calls = {TaskCall("list", 0, <<>>)}]

NextTasksPage ==
    \/ loadTasks
    \/ handleCreateTask
    \/ handleUpdateTask
    \/ \E id \in TaskRange : onEdit(id)
    \/ \E id \in TaskRange : handleToggleComplete(id)
    \/ \E id \in TaskRange : handleDeleteTask(id)
    \/ \E c \in tasksPage.calls : list_resolves(c)
    \/ \E c \in tasksPage.calls : create_resolves(c)
    \/ \E c \in tasksPage.calls : update_resolves(c)
    \/ \E c \in tasksPage.calls : toggle_resolves(c)
    \/ \E c \in tasksPage.calls : delete_resolves(c)
    \/ \E c \in tasksPage.calls : call_rejects(c)

TasksPageSpec == InitTasksPage /\ [][NextTasksPage]_vars

\* ------------------------------------------------------------------ properties
Started == {t \in Turns : turn[t].pc # "idle"}
AllTerminal == \A t \in Started : turn[t].pc \in Terminal

\* Positions in the messages table of turn t's rows of a role
RowsOf(t, role) == {i \in 1..Len(messages) : messages[i].turn = t /\ messages[i].role = role}

\* The rows of one conversation, in storage order
ConvLog(c) == SelectSeq(messages, LAMBDA m : m.conversation_id = c)

C4_AppendFirst ==
    \A t \in Turns :
        turn[t].agent # "none" =>
            \E i \in RowsOf(t, "user") :
                /\ messages[i].conversation_id = turn[t].conversation
                /\ messages[i].content = turn[t].message

\* The agent run failed and the user's message is there
C4_Witness ==
    \E t \in Turns :
        /\ turn[t].agent \in AgentFailures
        /\ RowsOf(t, "user") # {}

\* C10: in the messages table every turn's user row comes before that turn's
\* assistant row, and no assistant row is stored without its turn's user row,
\* however the turns on a conversation interleave.
C10_UserBeforeAssistant ==
    \A j \in 1..Len(messages) :
        messages[j].role = "assistant" =>
            \E i \in 1..(j - 1) :
                /\ messages[i].role = "user"
                /\ messages[i].turn = messages[j].turn
                /\ messages[i].conversation_id = messages[j].conversation_id

\* Two turns interleaved on one conversation: both user rows before both
\* assistant rows
C10_Witness ==
    /\ Len(messages) = 4
    /\ messages[1].role = "user" /\ messages[2].role = "user"
    /\ messages[3].role = "assistant" /\ messages[4].role = "assistant"
    /\ \A i \in 1..4 : messages[i].conversation_id = messages[1].conversation_id

TasksOf(u) == {k \in tasks : k.user_id = u}

\* C3: every tool call of a turn reads and writes only the caller's task rows:
\* each record names no other owner as touched, and a step that changes the
\* task rows of user u is a tool call of a turn whose verified caller is u,
\* whatever user_id the call's input carries.
C3_InjectedIdentity ==
    /\ [](\A t \in Turns : \A k \in 1..Len(turn[t].tool_calls) :
             turn[t].tool_calls[k].touched \subseteq {turn[t].user_id})
    /\ [][\A u \in Users :
             TasksOf(u)' # TasksOf(u) =>
                 \E t \in Turns : /\ turn[t].user_id = u
                                  /\ turn[t].pc = "Reasoned"
                                  /\ turn'[t].tool_calls # turn[t].tool_calls]_vars

\* A call whose input carried another user's id ran and touched the caller's task
C3_Witness ==
    \E t \in Turns : \E k \in 1..Len(turn[t].tool_calls) :
        LET c == turn[t].tool_calls[k] IN
        /\ c.input.user_id \in Users \ {turn[t].user_id}
        /\ c.tool \in {"complete_task", "delete_task", "update_task"}
        /\ c.output = "ok"
        /\ c.touched = {turn[t].user_id}

C7_EarlyStorageFailureIsFatal ==
    \A t \in Turns :
        (turn[t].failure = "Unavailable"
            /\ turn[t].failed_at \in {"Received", "Resolved", "StoringUser"}) =>
            /\ turn[t].pc = "Failed"
            /\ turn[t].agent = "none"
            /\ turn[t].tool_calls = <<>>
            /\ RowsOf(t, "user") = {}
            /\ RowsOf(t, "assistant") = {}
            /\ turn[t].response = UnavailableResponse
            /\ \A o \in Turns : turn[o].pc = "Responded" => turn[o].response # turn[t].response

\* The commit of the user message failed while another turn got its apology
C7_Witness ==
    \E t \in Turns, o \in Turns :
        /\ turn[t].failure = "Unavailable"
        /\ turn[t].failed_at = "StoringUser"
        /\ turn[o].pc = "Responded"
        /\ turn[o].agent \in AgentFailures

Unresolvable(t) ==
    \/ turn[t].resolved \in {"foreign", "missing"}
    \/ /\ turn[t].pc = "Received"
       /\ ResolveCase(conversations, turn[t].conversation_id, turn[t].user_id)
             \in {"foreign", "missing"}

\* C8: no step of a turn whose supplied conversation id does not resolve for
\* its caller changes a table: no conversation is created, no message
\* appended, no updated_at moved.
C8_UnresolvedTurnWritesNothing ==
    [][\A t \in Turns :
          (turn'[t] # turn[t] /\ Unresolvable(t)) => UNCHANGED storage]_vars

\* A turn on an id that does not exist was refused while the tables held data
C8_Witness ==
    \E t \in Turns :
        /\ turn[t].resolved = "missing"
        /\ turn[t].pc = "Failed"
        /\ turn[t].failure = "NotFound"
        /\ messages # <<>>

ToolOutputs == {"ok", "NotFound", "ValidationFailed", "Unavailable"}

\* C9: a failed tool call does not end the tool phase: a turn never executes
\* more calls than the agent asked for, has executed all of them once the
\* phase is over, and its assistant row carries one record per requested
\* call, each with its output or failure tag.
C9_ToolFailuresDoNotAbort ==
    \A t \in Turns :
        /\ Len(turn[t].tool_calls) <= turn[t].requested
        /\ turn[t].pc \in {"ToolsExecuted", "StoringAssistant", "Persisted", "Responded"} =>
              Len(turn[t].tool_calls) = turn[t].requested
        /\ \A j \in RowsOf(t, "assistant") :
              /\ Len(messages[j].tool_calls) = turn[t].requested
              /\ messages[j].tool_calls = turn[t].tool_calls
              /\ \A k \in 1..Len(messages[j].tool_calls) :
                    messages[j].tool_calls[k].output \in ToolOutputs

\* The first call failed, the second still ran, and both are in the stored reply
C9_Witness ==
    \E t \in Turns : \E j \in RowsOf(t, "assistant") :
        /\ Len(messages[j].tool_calls) = 2
        /\ messages[j].tool_calls[1].output \in {"NotFound", "ValidationFailed", "Unavailable"}
        /\ messages[j].tool_calls[2].output = "ok"

\* C11: every persisted message's conversation carries an updated_at that is
\* not older than the message's created_at, in every interleaving of appends.
C11_NoLostRecencyUpdate ==
    \A i \in 1..Len(messages) :
        messages[i].conversation_id \in DOMAIN conversations =>
            conversations[messages[i].conversation_id].updated_at >= messages[i].created_at

\* The rows of a fetched window, as a set
RowSet(h) == {h[i] : i \in 1..Len(h)}

\* The rows of conversation c
ConvRows(c) == {messages[i] : i \in ConvMsgIdx(messages, c)}

\* A window over conversation c under `limit`: no longer than the limit and no
\* shorter than the conversation allows, oldest first by created_at, made of
\* distinct rows of c, and no row left out is newer than a row kept
IsWindow(h, c, limit) ==
    /\ Len(h) = Min(limit, Cardinality(ConvMsgIdx(messages, c)))
    /\ \A i \in 1..Len(h), j \in 1..Len(h) : i < j => h[i].created_at <= h[j].created_at
    /\ Cardinality(RowSet(h)) = Len(h)
    /\ RowSet(h) \subseteq ConvRows(c)
    /\ \A d \in ConvRows(c) \ RowSet(h), k \in RowSet(h) : d.created_at <= k.created_at

\* C12: every result of the context fetch on a stored conversation is a window
\* of at most context_limit rows in created_at order holding the most recent
\* rows, and the history a turn holds is within the limit and in that order.
C12_ContextWindow ==
    /\ \A c \in DOMAIN conversations :
          \A h \in get_conversation_messages(messages, c, context_limit) :
              IsWindow(h, c, context_limit)
    /\ \A t \in Turns :
          LET h == turn[t].history IN
          /\ Len(h) <= context_limit
          /\ \A i \in 1..Len(h), j \in 1..Len(h) : i < j => h[i].created_at <= h[j].created_at
          /\ RowSet(h) \subseteq ConvRows(turn[t].conversation)

\* A turn loaded a full window from a conversation that holds more rows than
\* the window, and the row left out is the older one
C12_Witness ==
    \E t \in Turns :
        /\ turn[t].pc = "ContextLoaded"
        /\ Len(turn[t].history) = context_limit
        /\ Cardinality(ConvMsgIdx(messages, turn[t].conversation)) > context_limit
        /\ \A d \in ConvRows(turn[t].conversation) \ RowSet(turn[t].history) :
              d.created_at < turn[t].history[context_limit].created_at

\* C13: two context fetches of one conversation under the same limit, with no
\* write between them, return the same sequence: on every reachable store the
\* fetch has a single possible result.
C13_IdempotentRead ==
    \A c \in DOMAIN conversations :
        \A h1 \in get_conversation_messages(messages, c, context_limit) :
            \A h2 \in get_conversation_messages(messages, c, context_limit) : h1 = h2

\* C14: any two rows of one conversation are fetched in a single, determined
\* order, the order in which they were inserted, also when their created_at is
\* the same: the newest-first query result runs strictly backwards through the
\* insertion positions.
C14_InsertionOrder ==
    \A c \in DOMAIN conversations :
        \A q \in DescLimit(messages, ConvMsgIdx(messages, c), context_limit) :
            \A i \in 1..Len(q), j \in 1..Len(q) : i < j => q[i] > q[j]

IsPrefix(a, b) == Len(a) <= Len(b) /\ \A i \in 1..Len(a) : a[i] = b[i]

\* C16: every step leaves the stored rows of every conversation, and of the
\* whole messages table, in place and unchanged: the log before the step is a
\* prefix of the log after it.
C16_AppendOnly ==
    [][/\ IsPrefix(messages, messages')
       /\ \A c \in ConvIds : IsPrefix(ConvLog(c), ConvLog(c)')]_vars

\* Two turns have appended to one conversation, the second after the first
\* had a row stored
C16_Witness ==
    \E c \in DOMAIN conversations :
        /\ Len(ConvLog(c)) >= 3
        /\ \E i \in 1..Len(ConvLog(c)), j \in 1..Len(ConvLog(c)) :
              i < j /\ ConvLog(c)[i].turn # ConvLog(c)[j].turn

\* C17: every conversation has one owner, a user; a conversation created by a
\* turn is owned by that turn's caller; and no step removes a conversation or
\* changes its owner.
C17_OwnershipImmutable ==
    /\ [](\A c \in DOMAIN conversations : conversations[c].user_id \in Users)
    /\ [](\A t \in Turns :
             (turn[t].resolved = "new" /\ turn[t].conversation # NoConv) =>
                 /\ turn[t].conversation \in DOMAIN conversations
                 /\ conversations[turn[t].conversation].user_id = turn[t].user_id)
    /\ [][\A c \in DOMAIN conversations :
             /\ c \in DOMAIN conversations'
             /\ conversations'[c].user_id = conversations[c].user_id]_vars

\* A conversation took its owner's messages, its updated_at moved, and another
\* user's turn on it was refused
C17_Witness ==
    \E c \in DOMAIN conversations : \E t \in Turns :
        /\ Len(ConvLog(c)) >= 2
        /\ conversations[c].updated_at > conversations[c].created_at
        /\ turn[t].conversation_id = c
        /\ turn[t].resolved = "foreign"
        /\ turn[t].user_id # conversations[c].user_id

\* The steps of turn t that create a conversation: the resolution of a request
\* without an id
Creates(t) ==
    /\ turn[t].pc = "Received"
    /\ turn[t].conversation_id = NoConv
    /\ turn'[t].pc = "Resolved"

\* C18: a turn without a conversation id creates, at its resolution and at no
\* other step, exactly one conversation, new, owned by its caller and distinct
\* from every other turn's; a turn with the id of a conversation of its caller
\* creates none and works on that id; either turn appends only to its
\* conversation and answers with its id.
C18_ConversationResolution ==
    /\ [](\A t \in Turns :
             LET r == turn[t] IN
             /\ (r.resolved = "new" /\ r.conversation # NoConv) =>
                   /\ r.conversation_id = NoConv
                   /\ r.conversation \in DOMAIN conversations
                   /\ conversations[r.conversation].user_id = r.user_id
                   /\ \A o \in Turns \ {t} :
                         turn[o].resolved = "new" => turn[o].conversation # r.conversation
             /\ r.resolved = "own" =>
                   /\ r.conversation = r.conversation_id
                   /\ conversations[r.conversation].user_id = r.user_id
             /\ \A i \in 1..Len(messages) :
                   messages[i].turn = t => messages[i].conversation_id = r.conversation
             /\ r.pc = "Responded" =>
                   /\ r.resolved \in {"new", "own"}
                   /\ r.response.conversation_id = r.conversation
                   /\ RowsOf(t, "user") # {})
    /\ [][\A t \in Turns :
             turn'[t] # turn[t] =>
                 LET created == DOMAIN conversations' \ DOMAIN conversations IN
                 IF Creates(t)
                 THEN /\ Cardinality(created) = 1
                      /\ created = {turn'[t].conversation}
                      /\ conversations'[turn'[t].conversation].user_id = turn[t].user_id
                 ELSE created = {}]_vars

\* A turn without an id was answered with the id of the conversation it
\* created, and a second turn, sent with that id, was answered with the same
\* id, no other conversation having been created
C18_Witness ==
    \E a \in Turns, b \in Turns :
        /\ turn[a].resolved = "new" /\ turn[a].pc = "Responded"
        /\ turn[b].resolved = "own" /\ turn[b].pc = "Responded"
        /\ turn[b].conversation_id = turn[a].response.conversation_id
        /\ turn[b].response.conversation_id = turn[b].conversation_id
        /\ DOMAIN conversations = {turn[a].conversation}
        /\ Len(ConvLog(turn[a].conversation)) = 4

TurnsOn(c) == {t \in Turns : turn[t].conversation = c}

IsToolStep(t) == turn[t].pc = "Reasoned" /\ turn'[t].tool_calls # turn[t].tool_calls

\* The record of the call just made by turn t
LastCall(t) == turn'[t].tool_calls[Len(turn'[t].tool_calls)]

\* C22: a complete/delete by description that reaches the lookup acts on the
\* caller's single task whose title equals the description up to case; without
\* such a task, on the single task of highest similarity at or above the
\* threshold; and when several exact matches exist, several best candidates
\* tie, or none reaches the threshold, it answers NotFound and changes no task.
C22_MatchingPolicy ==
    [][\A t \in Turns :
          (IsToolStep(t) /\ LastCall(t).tool \in {"complete_task", "delete_task"}
              /\ LastCall(t).output # "Unavailable") =>
              LET rec == LastCall(t)
                  d == rec.input.title
                  own == TasksOf(turn[t].user_id)
                  exact == {k \in own : LowerTitle(k.title) = LowerTitle(d)}
                  reach == {k \in own : Similarity(k.title, d) >= FUZZY_THRESHOLD}
                  best == {k \in reach :
                             \A j \in reach : Similarity(j.title, d) <= Similarity(k.title, d)}
                  chosen == IF Cardinality(exact) = 1 THEN exact
                            ELSE IF exact = {} /\ Cardinality(best) = 1 THEN best
                            ELSE {}
              IN  IF chosen # {}
                  THEN /\ rec.output = "ok"
                       /\ tasks' = IF rec.tool = "delete_task" THEN tasks \ chosen
                                   ELSE (tasks \ chosen) \cup
                                            {[k EXCEPT !.completed = TRUE] : k \in chosen}
                  ELSE /\ rec.output = "NotFound"
                       /\ tasks' = tasks]_vars

\* "groceries" completed the task "Buy Groceries" by a fuzzy match, and "buy",
\* as close to "Buy Groceries" as to "buy milk", was answered NotFound
C22_Witness ==
    \E t \in Turns :
        /\ Len(turn[t].tool_calls) = 2
        /\ turn[t].tool_calls[1].tool = "complete_task"
        /\ turn[t].tool_calls[1].input.title = <<"groceries">>
        /\ turn[t].tool_calls[1].output = "ok"
        /\ [TaskA EXCEPT !.completed = TRUE] \in tasks
        /\ TaskB \in tasks
        /\ turn[t].tool_calls[2].input.title = <<"buy">>
        /\ turn[t].tool_calls[2].output = "NotFound"

\* C23: a tool call that ends in NotFound or ValidationFailed (or Unavailable)
\* leaves the task table as it was, and its record names no task row touched.
C23_FailedToolMutatesNothing ==
    [][\A t \in Turns :
          (IsToolStep(t) /\ LastCall(t).output # "ok") =>
              /\ LastCall(t).output \in {"NotFound", "ValidationFailed", "Unavailable"}
              /\ tasks' = tasks
              /\ LastCall(t).touched = {}]_vars

\* A complete_task found no task of the caller and a call with an unknown
\* input field failed validation, while the task of the other user is as it was
C23_Witness ==
    \E t \in Turns :
        /\ Len(turn[t].tool_calls) = 2
        /\ turn[t].tool_calls[1].tool = "complete_task"
        /\ turn[t].tool_calls[1].output = "NotFound"
        /\ turn[t].tool_calls[2].tool = "delete_task"
        /\ turn[t].tool_calls[2].input.user_id # NoUser
        /\ turn[t].tool_calls[2].output = "ValidationFailed"
        /\ tasks = {[id |-> 1, user_id |-> "u2", title |-> <<"milk">>,
                     completed |-> FALSE, description |-> ""]}
        /\ turn[t].user_id = "u1"

\* The step is a change of the textarea to a text beyond the limit
LongInput ==
    /\ chatInput'.input # chatInput.input
    /\ Length(chatInput'.input) > MAX_MESSAGE_LENGTH

\* C24 (as stated): no text longer than 2000 characters is sent, and a text
\* beyond the limit is rejected: the draft stays as it was, nothing of the long
\* text is taken over.
C24_LongTextRejected ==
    /\ [](\A i \in 1..Len(chatInput.sent) : Length(chatInput.sent[i]) <= MAX_MESSAGE_LENGTH)
    /\ [][LongInput => chatInput'.message = chatInput.message]_vars

\* C24 (amended): no draft and no sent text is longer than 2000 characters;
\* a text beyond the limit is not rejected but cut: the draft becomes its first
\* 2000 characters.
C24_LongTextTruncated ==
    /\ [](/\ Length(chatInput.message) <= MAX_MESSAGE_LENGTH
          /\ \A i \in 1..Len(chatInput.sent) :
                Length(chatInput.sent[i]) <= MAX_MESSAGE_LENGTH)
    /\ [][LongInput =>
             LET m == chatInput'.message
                 v == chatInput'.input
             IN  /\ Length(m) = MAX_MESSAGE_LENGTH
                 /\ m.lead = v.lead
                 /\ m.core = Min(v.core, MAX_MESSAGE_LENGTH - v.lead)
                 /\ m.trail = MAX_MESSAGE_LENGTH - m.lead - m.core]_vars

\* A text of 2001 characters was entered and its first 2000 were sent
C24_Witness ==
    /\ Len(chatInput.sent) = 1
    /\ Length(chatInput.sent[1]) = MAX_MESSAGE_LENGTH
    /\ chatInput.input = Text(0, MAX_MESSAGE_LENGTH + 1, 0)

\* C25: a handleSubmit on a draft that is empty or blank, or while isLoading
\* or disabled holds, calls nothing and leaves the draft; any other
\* handleSubmit passes the trimmed draft to onSend once; so every text passed
\* to onSend is non-empty and has no blanks at its ends.
C25_EmptyMessageIgnored ==
    /\ [](\A i \in 1..Len(chatInput.sent) :
             LET x == chatInput.sent[i] IN x.core > 0 /\ x.lead = 0 /\ x.trail = 0)
    /\ [][chatInput'.submits # chatInput.submits =>
             IF \/ chatInput.message.core = 0
                \/ chatInput.isLoading
                \/ chatInput.disabled
             THEN /\ chatInput'.sent = chatInput.sent
                  /\ chatInput'.message = chatInput.message
             ELSE /\ Len(chatInput'.sent) = Len(chatInput.sent) + 1
                  /\ chatInput'.sent[Len(chatInput'.sent)] =
                        [lead |-> 0, core |-> chatInput.message.core, trail |-> 0]]_vars

\* A draft with blanks at both ends was sent trimmed, and a second submit,
\* made on a blank draft, sent nothing and left the blank draft
C25_Witness ==
    /\ chatInput.submits = 2
    /\ chatInput.sent = <<Text(0, 1, 0)>>
    /\ chatInput.input = Text(1, 0, 0)
    /\ chatInput.message = Text(1, 0, 0)

\* C26: the chat view has at most one send awaited at any time, and of two
\* turns it sent on the same conversation the later one's user message is
\* stored after the earlier one's assistant message.
C26_SequentialPerConversation ==
    /\ Cardinality(chatPage.sends) <= 1
    /\ \A t1 \in Started, t2 \in Started :
          (/\ t1 < t2
           /\ turn[t1].conversation # NoConv
           /\ turn[t1].conversation = turn[t2].conversation)
          => \A i \in RowsOf(t1, "assistant"), j \in RowsOf(t2, "user") : i < j

TempMessages == {i \in 1..Len(chatPage.messages) : chatPage.messages[i].id = "temp"}

\* The messages of the view without the optimistic message of turn t
OtherMessages(page, t) == SelectSeq(page.messages, LAMBDA m : ~(m.id = "temp" /\ m.turn = t))

\* The step ends the send of turn t
SendEnds(t) ==
    /\ \E s \in chatPage.sends : s.turn = t
    /\ ~\E s \in chatPage'.sends : s.turn = t

\* C28: while isLoading is false the list holds no temporary message; a send
\* that succeeds puts, in place of its temporary message, one user message
\* and then the response's assistant message at the end of the list; a send
\* that fails removes its temporary message, sets the error and leaves the
\* other messages and conversationId as they were.
C28_NoTempWhenIdle ==
    /\ [](~chatPage.isLoading => TempMessages = {})
    /\ [][\A t \in Turns : SendEnds(t) =>
             /\ ~chatPage'.isLoading
             /\ IF chatPage'.error = "none"
                THEN /\ turn[t].pc = "Responded"
                     /\ chatPage'.messages = OtherMessages(chatPage, t) \o
                           <<[id |-> "user", role |-> "user", turn |-> t,
                              conversation_id |-> turn[t].conversation],
                             [id |-> "server", role |-> "assistant", turn |-> t,
                              conversation_id |-> turn[t].conversation]>>
                ELSE /\ chatPage'.error # "none"
                     /\ chatPage'.messages = OtherMessages(chatPage, t)
                     /\ chatPage'.conversationId = chatPage.conversationId]_vars

\* A send succeeded next to an earlier message of the list, and another send
\* failed and left the list and the conversation id as before
C28_Witness ==
    /\ ~chatPage.isLoading
    /\ chatPage.sends = {}
    /\ chatPage.error = "Failed to send message"
    /\ chatPage.conversationId = 1
    /\ Len(chatPage.messages) = 2
    /\ chatPage.messages[1].id = "user" /\ chatPage.messages[2].id = "server"
    /\ chatPage.messages[1].turn = 1 /\ chatPage.messages[2].turn = 1
    /\ turn[2].pc # "idle"

\* No request of the chat view is awaited
NoRequestInFlight == chatPage.sends = {} /\ chatPage.loads = {}

\* C29: whenever no request is in flight, every message shown belongs to the
\* conversation in conversationId, and nothing is shown when conversationId
\* is null; a response that arrives after New Chat changes neither.
C29_OnlyCurrentConversation ==
    NoRequestInFlight =>
        \A i \in 1..Len(chatPage.messages) :
            /\ chatPage.conversationId # NoConv
            /\ chatPage.messages[i].conversation_id = chatPage.conversationId

\* C27: DashboardLayout shows its children only when the check is over and a
\* user is present, whom the server had given a session; on a dashboard path
\* a finished check without a user has navigated to /signin; the step that
\* ends checkAuth sets isLoading to false, and every check ends.
C27_DashboardGuard ==
    /\ [](DashboardLayout(auth) = "children" =>
             ~auth.isLoading /\ auth.user # NoUser /\ auth.hadSession)
    /\ [](auth.pathname = "/dashboard" => auth.isLoading \/ auth.user # NoUser)
    /\ [][("me" \in auth.calls /\ "me" \notin auth'.calls) => ~auth'.isLoading]_vars
    /\ (auth.isLoading ~> ~auth.isLoading)

\* A visitor without a session opened the dashboard, the check has failed and
\* the sign-in page is shown
C27_Witness ==
    /\ ~auth.hadSession
    /\ ~auth.isLoading
    /\ auth.user = NoUser
    /\ auth.pathname = "/signin"
    /\ auth.visits = 0
    /\ auth.calls = {}

\* The task with this id in the local list, as a set (empty if not shown)
LocalTask(id) == {tasksPage.tasks[i] : i \in {j \in 1..Len(tasksPage.tasks) :
                                                tasksPage.tasks[j].id = id}}

\* C30: when no task operation is in flight, the local list shows, for every
\* task, the result of the last operation on it that the server confirmed:
\* the created or updated task as the server returned it, and no task after
\* a confirmed delete; an operation on another task has not undone it.
C30_ListReflectsConfirmed ==
    tasksPage.calls = {} =>
        \A id \in DOMAIN tasksPage.confirmed :
            IF tasksPage.confirmed[id].op = "delete" THEN LocalTask(id) = {}
            ELSE LocalTask(id) = {tasksPage.confirmed[id].task}
====
